---- MODULE Spec2Model ----
(***************************************************************************)
(* Model of UsefulMacros/SmartGCode.js: the G-code pass OptimizeGCode that *)
(* marks the program as processed, inserts a dwell after spindle starts    *)
(* and turns G1 moves at or above the feed height into rapid moves.        *)
(*                                                                         *)
(* A line of text is a sequence of tokens [l, v].  A word such as Z-5 is   *)
(* the token (l = "Z", v = -50): axis, feed and dwell words carry their    *)
(* number in tenths, so that one decimal place can be written, G and M     *)
(* words carry their integer code.  A piece of plain text is a token whose *)
(* l is the text and whose v is 0.  The regular expressions and startsWith *)
(* tests of the source are computed on these tokens.                       *)
(***************************************************************************)
EXTENDS Integers, Sequences, FiniteSets, TLC

\* ------------------------------------------------------------------ bounds

\* Longest program drawn from the full line alphabet.
MaxLen == 3
\* Longest body, drawn from the core line alphabet, after a leading block-start line.
MaxBody == 5
\* Number of times OptimizeGCode is called on the same document.
MaxRuns == 2

\* ------------------------------------------------------------- JS values

\* undefined / a defined number
None == << >>
Some(v) == << v >>

\* a < b and a >= b of JavaScript: false when either side is undefined
Lt(a, b) == a # None /\ b # None /\ a[1] < b[1]
Ge(a, b) == a # None /\ b # None /\ a[1] >= b[1]

\* Number.prototype.toFixed(0) on a non-negative number in tenths: the
\* nearest integer, the larger one on a tie; the result is again in tenths.
ToFixed0(x) == ((x + 5) \div 10) * 10

\* --------------------------------------------------------------- tokens

Word(l, v) == [l |-> l, v |-> v]
Text(s) == [l |-> s, v |-> 0]

\* "(When using Fusion 360 for Personal Use"
BlockStartPrefix == << Text("("), Text("When using Fusion 360 for Personal Use") >>
\* "OPTIMIZED: "
OptimizedTag == Text("OPTIMIZED: ")
\* "(OPTIMIZED: When using Fusion 360 for Personal Use"
DonePrefix == << Text("("), OptimizedTag, Text("When using Fusion 360 for Personal Use") >>

\* line.startsWith(prefix)
StartsWith(line, prefix) ==
    /\ Len(line) >= Len(prefix)
    /\ SubSeq(line, 1, Len(prefix)) = prefix

IsBlockStart(line) == StartsWith(line, BlockStartPrefix)
\* variant: the done-marked line is not recognised
IsDoneMarked_Never(line) == FALSE
IsDoneMarked(line) == StartsWith(line, DonePrefix)
\* line.startsWith("(")
IsComment(line) == StartsWith(line, << Text("(") >>)

\* the decimal digits of code v begin with the digit 3
BeginsWith3(v) == v = 3 \/ (v >= 30 /\ v <= 39) \/ (v >= 300 /\ v <= 399)

\* line.indexOf("M3") != -1
ContainsM3(line) == \E i \in 1..Len(line) : line[i].l = "M" /\ BeginsWith3(line[i].v)

\* the number of the first word with the given letter, or undefined
FirstWord(line, letter) ==
    LET S == { i \in 1..Len(line) : line[i].l = letter }
    IN  IF S = {} THEN None
        ELSE Some(line[CHOOSE i \in S : \A j \in S : i <= j].v)

\* line.match(/^G(\d+)/)
MatchG(line) == IF line # << >> /\ line[1].l = "G" THEN Some(line[1].v) ELSE None
\* line.match(/Z(-?[\d\.]+)/)
MatchZ(line) == FirstWord(line, "Z")
\* line.match(/F([\d\.]+)/)
MatchF(line) == FirstWord(line, "F")

\* ------------------------------------------------------ document edits

\* doc.replace of an empty range at column 1: the text goes in after the
\* first character of the line (the token "(" of a block-start line).
\* variant: the marker is not written
InsertAtColumn1_Skip(line, tok) == line
InsertAtColumn1(line, tok) == << line[1] >> \o << tok >> \o Tail(line)

\* variant: the first token is overwritten even when it is no G word
PromoteLine_Overwrite(line) == << Word("G", 0) >> \o Tail(line)
\* the rewritten text of a promoted line
PromoteLine(line) ==
    IF MatchG(line) # None
    THEN << Word("G", 0) >> \o Tail(line)
    ELSE << Word("G", 0) >> \o line

\* doc.replace of the whole of row `row` (0-based) by `line`
ReplaceRow(d, row, line) == [d EXCEPT ![row + 1] = line]

\* doc.insertFullLines(row, [line])
InsertFullLines(d, row, line) ==
    SubSeq(d, 1, row) \o << line >> \o SubSeq(d, row + 1, Len(d))

\* variant: lineCount is not adjusted
Grow_Forgotten(n) == n
\* variant: lineCount is raised by two for one inserted line
Grow_Twice(n) == n + 2
\* lineCount++ after an inserted line
Grow(n) == n + 1

\* "G4 P" + SPINDLE_START_DELAY.toFixed(0)
DwellLine(delay) == << Word("G", 4), Word("P", ToFixed0(delay)) >>
\* "G1 F" + curF.toFixed(0)
FeedRestoreLine(f) == << Word("G", 1), Word("F", ToFixed0(f[1])) >>

\* ------------------------------------------------------ rules of the loop

\* variant: the first G1 with a Z word gives feedZ, whatever came before
Rule1_NoLastZ(g, fz, z, lz) == g = Some(1) /\ fz = None /\ z # None /\ (lz = None \/ Lt(z, lz))
\* first G1 that moves Z down
Rule1(g, fz, z, lz) == g = Some(1) /\ fz = None /\ z # None /\ lz # None /\ Lt(z, lz)
\* variant: a G1 that does not move Z down, whatever the feedZ is
Rule2_AnyHeight(g, fz, z, lz) == g = Some(1) /\ fz # None /\ Ge(z, lz)
\* a G1 at or above the feedZ
Rule2(g, fz, z, lz) == g = Some(1) /\ fz # None /\ Ge(z, fz) /\ Ge(z, lz)

\* variant: the current value is overwritten even when the line has none
Sticky_Overwrite(cur, found) == found
\* sticky update: a value found on the line replaces the current one
Sticky(cur, found) == IF found # None THEN found ELSE cur

\* ------------------------------------------------------------ programs

MarkerLine == BlockStartPrefix \o << Text("...)") >>
DoneLine == DonePrefix \o << Text("...)") >>
\* "G1 Z-5 F100", "G1 Z-5 X10", "G1 Z0 X20"
PlungeFeedLine == << Word("G", 1), Word("Z", -50), Word("F", 1000) >>
CutLine == << Word("G", 1), Word("Z", -50), Word("X", 100) >>
RetractLine == << Word("G", 1), Word("Z", 0), Word("X", 200) >>
\* "M3 S1000"
SpindleLine == << Word("M", 3), Word("S", 10000) >>
\* "G0 Z5"
RapidLine == << Word("G", 0), Word("Z", 50) >>
\* "Z-10 F100.5"
DeepLine == << Word("Z", -100), Word("F", 1005) >>
\* "G0 Z5 M3"
SpindleMoveLine == << Word("G", 0), Word("Z", 50), Word("M", 3) >>
\* "(Z5 M3)"
NoteLine == << Text("("), Word("Z", 50), Word("M", 3), Text(")") >>

CoreLines == { MarkerLine, PlungeFeedLine, CutLine, RetractLine, DeepLine, SpindleLine }
Lines == CoreLines \cup { DoneLine, RapidLine, SpindleMoveLine, NoteLine }

SeqsUpTo(S, n) == UNION { [1..k -> S] : k \in 0..n }

\* the configured delay in tenths of a second: 3 in the source, 0 disables
DelayValues == { 0, 30 }

\* ---------------------------------------------------------------- state

VARIABLES
    doc,                 \* editor.session.doc: the lines of the document
    SPINDLE_START_DELAY, \* the configured delay, in tenths
    pc,                  \* "idle", "scan" (first loop), "loop" (main loop), "done", "threw"
    lineCount, lineIdx, optimize,
    curZ, curG, curF, feedZ, restoreF, optimized,
    printed,             \* printLog was called by the last pass
    input,               \* history: the document before the first call
    origin,              \* history: for each line of doc, its index in input, 0 if inserted
    runs,                \* history: number of calls of OptimizeGCode so far
    docAtCall,           \* history: the document when the current call began
    replaces,            \* history: doc.replace calls of the current call
    inserts,             \* history: doc.insertFullLines calls of the current call
    lastHandled,         \* history: input index of the line the main loop handled last
    MACHINE_MIN_Z,       \* the configured Z limit in tenths, absent when disabled
    offset_z,            \* laststatus.machine.position.offset.z, in tenths
    g_LastToolName,      \* the tool name of the last job that went ahead, absent at first
    dialog,              \* the dialog the pendant shows, with the tool name its buttons hold
    toolInfo,            \* what GetToolInfo returned to the last OnEnterJobMenu
    event,               \* history: the handler that ran last
    called               \* history: the handler that ran last invoked callback()

locals == << lineCount, lineIdx, optimize, curZ, curG, curF, feedZ, restoreF, optimized >>
history == << input, origin, runs, docAtCall, replaces, inserts, lastHandled >>
menu == << MACHINE_MIN_Z, offset_z, g_LastToolName, dialog, toolInfo, event, called >>
vars == << doc, SPINDLE_START_DELAY, pc, printed, locals, history, menu >>

\* const MACHINE_MIN_Z = -102
MinZLimit == -1020

\* no dialog is shown
NoDialog == [title |-> "none", toolName |-> << >>]

\* OnEnterJobMenu has not been called
MenuIdle ==
    /\ g_LastToolName = None
    /\ dialog = NoDialog
    /\ toolInfo = None
    /\ event = "none"
    /\ called = FALSE

\* doc.getLine(lineIdx)
Line == doc[lineIdx + 1]

Init ==
    /\ \/ input \in SeqsUpTo(Lines, MaxLen) /\ SPINDLE_START_DELAY \in DelayValues
       \/ /\ input \in { << MarkerLine >> \o b : b \in SeqsUpTo(CoreLines, MaxBody) }
          /\ SPINDLE_START_DELAY = 30
    /\ doc = input
    /\ origin = [i \in 1..Len(input) |-> i]
    /\ pc = "idle"
    /\ lineCount = 0 /\ lineIdx = 0 /\ optimize = FALSE
    /\ curZ = None /\ curG = None /\ curF = None /\ feedZ = None
    /\ restoreF = FALSE /\ optimized = FALSE
    /\ printed = FALSE
    /\ runs = 0 /\ docAtCall = input /\ replaces = 0 /\ inserts = 0 /\ lastHandled = 0
    /\ MACHINE_MIN_Z = Some(MinZLimit) /\ offset_z = 0
    /\ MenuIdle

\* ---------------------------------------------------------- first loop

\* entry of OptimizeGCode: fresh locals, the line count is read
Call ==
    /\ pc \in { "idle", "done", "threw" }
    /\ runs < MaxRuns
    /\ pc' = "scan"
    /\ lineCount' = Len(doc) /\ lineIdx' = 0 /\ optimize' = FALSE
    /\ curZ' = None /\ curG' = None /\ curF' = None /\ feedZ' = None
    /\ restoreF' = FALSE /\ optimized' = FALSE
    /\ printed' = FALSE
    /\ runs' = runs + 1 /\ docAtCall' = doc /\ replaces' = 0 /\ inserts' = 0 /\ lastHandled' = 0
    /\ UNCHANGED << doc, SPINDLE_START_DELAY, input, origin >>
    /\ UNCHANGED menu

\* the first block-start line is marked done, the first loop is left and the
\* locals of the main loop are set
ScanMarker ==
    /\ pc = "scan" /\ lineIdx < lineCount
    /\ IsBlockStart(Line)
    /\ doc' = ReplaceRow(doc, lineIdx, InsertAtColumn1(Line, OptimizedTag))
    /\ optimize' = TRUE
    /\ replaces' = replaces + 1
    /\ curZ' = None /\ curG' = None /\ curF' = None /\ feedZ' = None
    /\ restoreF' = FALSE /\ optimized' = FALSE
    /\ pc' = "loop" /\ lineIdx' = 0
    /\ UNCHANGED << SPINDLE_START_DELAY, printed, lineCount, input, origin, runs,
                    docAtCall, inserts, lastHandled >>
    /\ UNCHANGED menu

\* a done-marked line comes first: return
ScanDone ==
    /\ pc = "scan" /\ lineIdx < lineCount
    /\ ~IsBlockStart(Line) /\ IsDoneMarked(Line)
    /\ pc' = "done"
    /\ UNCHANGED << doc, SPINDLE_START_DELAY, printed, locals, history >>
    /\ UNCHANGED menu

ScanNext ==
    /\ pc = "scan" /\ lineIdx < lineCount
    /\ ~IsBlockStart(Line) /\ ~IsDoneMarked(Line)
    /\ lineIdx' = lineIdx + 1
    /\ UNCHANGED << doc, SPINDLE_START_DELAY, pc, printed, lineCount, optimize, curZ, curG,
                    curF, feedZ, restoreF, optimized, history >>
    /\ UNCHANGED menu

\* no block-start line: optimize is false, return
ScanEnd ==
    /\ pc = "scan" /\ lineIdx >= lineCount
    /\ pc' = "done"
    /\ UNCHANGED << doc, SPINDLE_START_DELAY, printed, locals, history >>
    /\ UNCHANGED menu

\* ----------------------------------------------------------- main loop

\* a comment line; a block-start line resets feedZ
LoopComment ==
    /\ pc = "loop" /\ lineIdx < lineCount
    /\ IsComment(Line)
    /\ feedZ' = IF IsBlockStart(Line) THEN None ELSE feedZ
    /\ lineIdx' = lineIdx + 1
    /\ lastHandled' = origin[lineIdx + 1]
    /\ UNCHANGED << doc, SPINDLE_START_DELAY, pc, printed, lineCount, optimize, curZ, curG,
                    curF, restoreF, optimized, input, origin, runs, docAtCall, replaces, inserts >>
    /\ UNCHANGED menu

\* a spindle start: the dwell line goes in after it and is stepped over
LoopSpindle ==
    /\ pc = "loop" /\ lineIdx < lineCount
    /\ ~IsComment(Line)
    /\ SPINDLE_START_DELAY > 0 /\ ContainsM3(Line)
    /\ doc' = InsertFullLines(doc, lineIdx + 1, DwellLine(SPINDLE_START_DELAY))
    /\ origin' = InsertFullLines(origin, lineIdx + 1, 0)
    /\ lineIdx' = lineIdx + 2
    /\ lineCount' = Grow(lineCount)
    /\ inserts' = inserts + 1
    /\ lastHandled' = origin[lineIdx + 1]
    /\ UNCHANGED << SPINDLE_START_DELAY, pc, printed, optimize, curZ, curG, curF, feedZ,
                    restoreF, optimized, input, runs, docAtCall, replaces >>
    /\ UNCHANGED menu

\* the line reaches the motion rules
Motion ==
    /\ pc = "loop" /\ lineIdx < lineCount
    /\ ~IsComment(Line)
    /\ ~(SPINDLE_START_DELAY > 0 /\ ContainsM3(Line))

NewG == Sticky(curG, MatchG(Line))
NewZ == Sticky(curZ, MatchZ(Line))
NewF == Sticky(curF, MatchF(Line))

\* rule 1: the first G1 that moves Z down gives feedZ
LoopPlunge ==
    /\ Motion
    /\ Rule1(NewG, feedZ, NewZ, curZ)
    /\ curG' = NewG /\ curZ' = NewZ /\ curF' = NewF
    /\ feedZ' = NewZ
    /\ lineIdx' = lineIdx + 1
    /\ lastHandled' = origin[lineIdx + 1]
    /\ UNCHANGED << doc, SPINDLE_START_DELAY, pc, printed, lineCount, optimize, restoreF,
                    optimized, input, origin, runs, docAtCall, replaces, inserts >>
    /\ UNCHANGED menu

\* rule 2: a G1 at or above feedZ becomes G0
LoopPromote ==
    /\ Motion
    /\ ~Rule1(NewG, feedZ, NewZ, curZ)
    /\ Rule2(NewG, feedZ, NewZ, curZ)
    /\ curG' = NewG /\ curZ' = NewZ /\ curF' = NewF
    /\ doc' = ReplaceRow(doc, lineIdx, PromoteLine(Line))
    /\ restoreF' = TRUE /\ optimized' = TRUE
    /\ replaces' = replaces + 1
    /\ lineIdx' = lineIdx + 1
    /\ lastHandled' = origin[lineIdx + 1]
    /\ UNCHANGED << SPINDLE_START_DELAY, pc, printed, lineCount, optimize, feedZ, input,
                    origin, runs, docAtCall, inserts >>
    /\ UNCHANGED menu

\* rule 3: the feed rate is restored before the line; lineIdx then moves on
\* by one, which is the row the line itself now has
LoopRestore ==
    /\ Motion
    /\ ~Rule1(NewG, feedZ, NewZ, curZ)
    /\ ~Rule2(NewG, feedZ, NewZ, curZ)
    /\ restoreF
    /\ NewF # None
    /\ curG' = NewG /\ curZ' = NewZ /\ curF' = NewF
    /\ doc' = InsertFullLines(doc, lineIdx, FeedRestoreLine(NewF))
    /\ origin' = InsertFullLines(origin, lineIdx, 0)
    /\ lineCount' = Grow(lineCount)
    /\ restoreF' = FALSE
    /\ inserts' = inserts + 1
    /\ lineIdx' = lineIdx + 1
    /\ lastHandled' = origin[lineIdx + 1]
    /\ UNCHANGED << SPINDLE_START_DELAY, pc, printed, optimize, feedZ, optimized, input,
                    runs, docAtCall, replaces >>
    /\ UNCHANGED menu

\* rule 3 with curF undefined: curF.toFixed raises a TypeError, the pass ends
LoopRestoreThrow ==
    /\ Motion
    /\ ~Rule1(NewG, feedZ, NewZ, curZ)
    /\ ~Rule2(NewG, feedZ, NewZ, curZ)
    /\ restoreF
    /\ NewF = None
    /\ curG' = NewG /\ curZ' = NewZ /\ curF' = NewF
    /\ pc' = "threw"
    /\ lastHandled' = origin[lineIdx + 1]
    /\ UNCHANGED << doc, SPINDLE_START_DELAY, printed, lineCount, lineIdx, optimize, feedZ,
                    restoreF, optimized, input, origin, runs, docAtCall, replaces, inserts >>
    /\ UNCHANGED menu

\* no rule applies: only the sticky state changes
LoopPass ==
    /\ Motion
    /\ ~Rule1(NewG, feedZ, NewZ, curZ)
    /\ ~Rule2(NewG, feedZ, NewZ, curZ)
    /\ ~restoreF
    /\ curG' = NewG /\ curZ' = NewZ /\ curF' = NewF
    /\ lineIdx' = lineIdx + 1
    /\ lastHandled' = origin[lineIdx + 1]
    /\ UNCHANGED << doc, SPINDLE_START_DELAY, pc, printed, lineCount, optimize, feedZ,
                    restoreF, optimized, input, origin, runs, docAtCall, replaces, inserts >>
    /\ UNCHANGED menu

\* end of the main loop: the log line is printed if a line was promoted
LoopEnd ==
    /\ pc = "loop" /\ lineIdx >= lineCount
    /\ printed' = optimized
    /\ pc' = "done"
    /\ UNCHANGED << doc, SPINDLE_START_DELAY, locals, history >>
    /\ UNCHANGED menu

Next ==
    \/ Call
    \/ ScanMarker
    \/ ScanDone
    \/ ScanNext
    \/ ScanEnd
    \/ LoopComment
    \/ LoopSpindle
    \/ LoopPlunge
    \/ LoopPromote
    \/ LoopRestore
    \/ LoopRestoreThrow
    \/ LoopPass
    \/ LoopEnd

Spec == Init /\ [][Next]_vars

\* ------------------------------------------------- the pass as a function

\* The same pass computed in one piece, on a record of the document and the
\* locals of OptimizeGCode, so that the pass over one program can be compared
\* with the pass over another. org follows the input index of every row.

\* one iteration of the main loop
LoopBody(s, delay) ==
    LET line == s.doc[s.idx + 1]
        g == Sticky(s.g, MatchG(line))
        z == Sticky(s.z, MatchZ(line))
        f == Sticky(s.f, MatchF(line))
        t == [s EXCEPT !.g = g, !.z = z, !.f = f]
    IN  IF IsComment(line)
        THEN [s EXCEPT !.fz = IF IsBlockStart(line) THEN None ELSE @, !.idx = @ + 1]
        ELSE IF delay > 0 /\ ContainsM3(line)
        THEN [s EXCEPT !.doc = InsertFullLines(@, s.idx + 1, DwellLine(delay)),
                       !.org = InsertFullLines(@, s.idx + 1, 0),
                       !.idx = @ + 2, !.count = Grow(@)]
        ELSE IF Rule1(g, s.fz, z, s.z)
        THEN [t EXCEPT !.fz = z, !.idx = @ + 1]
        ELSE IF Rule2(g, s.fz, z, s.z)
        THEN [t EXCEPT !.doc = ReplaceRow(@, s.idx, PromoteLine(line)),
                       !.rf = TRUE, !.opt = TRUE, !.idx = @ + 1]
        ELSE IF s.rf
        THEN IF f = None
             THEN [t EXCEPT !.st = "threw"]
             ELSE [t EXCEPT !.doc = InsertFullLines(@, s.idx, FeedRestoreLine(f)),
                            !.org = InsertFullLines(@, s.idx, 0),
                            !.count = Grow(@), !.rf = FALSE, !.idx = @ + 1]
        ELSE [t EXCEPT !.idx = @ + 1]

RECURSIVE MainLoop(_, _)
MainLoop(s, delay) ==
    IF s.st # "loop" THEN s
    ELSE IF s.idx >= s.count THEN [s EXCEPT !.st = "done"]
    ELSE MainLoop(LoopBody(s, delay), delay)

\* OptimizeGCode on document d: the document it leaves, the input index of
\* each row, and how the pass ended
Optimize(d, delay) ==
    LET stop == { k \in 1..Len(d) : IsBlockStart(d[k]) \/ IsDoneMarked(d[k]) }
        k0 == CHOOSE k \in stop : \A m \in stop : k <= m
        s0 == [doc |-> d, org |-> [i \in 1..Len(d) |-> i], idx |-> 0, count |-> Len(d),
               z |-> None, g |-> None, f |-> None, fz |-> None, rf |-> FALSE, opt |-> FALSE,
               st |-> "done"]
    IN  IF stop = {} \/ ~IsBlockStart(d[k0]) THEN s0
        ELSE MainLoop([s0 EXCEPT !.doc = ReplaceRow(d, k0 - 1, InsertAtColumn1(d[k0], OptimizedTag)),
                                 !.st = "loop"], delay)

\* ------------------------------------------------------------ tool info

\* line.startsWith("(T"): no text of the line alphabet begins with T, so the
\* second token is a T word
StartsWithParenT(line) == Len(line) >= 2 /\ line[1] = Text("(") /\ line[2].l = "T"

\* digits left behind by a replace, attached to the token before them
Digits(v) == Word("", v)

\* the token holds a "-"
HasDash(tok) == tok = Text("-") \/ tok.v < 0

\* line.replace(/T\d+ /, ""): the first T word that is followed by a space
\* goes, with that space
StripToolIndex(line) ==
    LET S == { i \in 1..(Len(line) - 1) : line[i].l = "T" /\ line[i + 1] # Text(")") }
        i == CHOOSE k \in S : \A m \in S : k <= m
    IN  IF S = {} THEN line
        ELSE SubSeq(line, 1, i - 1) \o SubSeq(line, i + 1, Len(line))

\* line.replace(/ ZMIN.*-/, ""): from the space before the first ZMIN to the
\* last "-" of the line; what follows that "-" stays, and nothing is replaced
\* when no "-" follows " ZMIN"
StripZmin(line) ==
    LET Z == { i \in 2..Len(line) : line[i].l = "ZMIN=" /\ line[i - 1] # Text("(") }
        i == CHOOSE k \in Z : \A m \in Z : k <= m
        D == { j \in i..Len(line) : HasDash(line[j]) }
        j == CHOOSE k \in D : \A m \in D : m <= k
        rest == IF line[j] = Text("-") THEN << >> ELSE << Digits(-line[j].v) >>
    IN  IF Z = {} THEN line
        ELSE IF D = {} THEN line
        ELSE SubSeq(line, 1, i - 1) \o rest \o SubSeq(line, j + 1, Len(line))

\* line.match(/ZMIN=(-?[\d\.]+)/), as a number
MatchZMIN(line) == FirstWord(line, "ZMIN=")

\* the tool name and the minimum Z of a tool-comment line
ToolInfoOf(line) ==
    [toolName |-> StripZmin(StripToolIndex(line)), minZ |-> MatchZMIN(line)]

\* variant: the last tool-comment line is used
GetToolInfo_Last(d) ==
    LET S == { k \in 1..Len(d) : StartsWithParenT(d[k]) }
    IN  IF S = {} THEN None
        ELSE Some(ToolInfoOf(d[CHOOSE k \in S : \A m \in S : m <= k]))
\* GetToolInfo on document d: undefined, or the info of the first line that
\* starts with "(T"
GetToolInfo(d) ==
    LET S == { k \in 1..Len(d) : StartsWithParenT(d[k]) }
    IN  IF S = {} THEN None
        ELSE Some(ToolInfoOf(d[CHOOSE k \in S : \A m \in S : k <= m]))

\* a + b of JavaScript: NaN when a side is undefined; every comparison with
\* NaN is false, as with undefined, so NaN is held as the absent value
Plus(a, b) == IF a = None \/ b = None THEN None ELSE Some(a[1] + b[1])

\* MACHINE_MIN_Z == undefined || minZ + offset.z >= MACHINE_MIN_Z
WithinLimit(minZ) ==
    MACHINE_MIN_Z = None \/ Ge(Plus(minZ, Some(offset_z)), MACHINE_MIN_Z)

\* variant: every tool counts as the tool in use
SameTool_Always(last, toolName) == TRUE
\* g_LastToolName == undefined || g_LastToolName == toolName
SameTool(last, toolName) == last = None \/ last = Some(toolName)

\* ------------------------------------------------------- menu programs

\* "(T1 Router ZMIN=-10.5)", "(T1 Router ZMIN=5)"
ToolRouter == << Text("("), Word("T", 1), Text("Router"), Word("ZMIN=", -105), Text(")") >>
ToolRouterHigh == << Text("("), Word("T", 1), Text("Router"), Word("ZMIN=", 50), Text(")") >>
\* "(T2 Drill)"
ToolDrill == << Text("("), Word("T", 2), Text("Drill"), Text(")") >>
\* "(T3 D=6 - ZMIN=-10.5 - flat end mill)"
ToolFusion ==
    << Text("("), Word("T", 3), Text("D=6"), Text("-"), Word("ZMIN=", -105), Text("-"),
       Text("flat end mill"), Text(")") >>

ToolLines == { ToolRouter, ToolRouterHigh, ToolDrill, ToolFusion }

\* Most tool-comment lines in a program.
MaxTools == 2

\* a body with a line that is promoted, and one on which the pass throws
PromoteBody == << MarkerLine, RetractLine, PlungeFeedLine, CutLine, RetractLine >>
ThrowBody == << MarkerLine, RetractLine, CutLine, RetractLine, CutLine >>

\* the tool-comment lines follow the first line of the program
MenuPrograms ==
    { << b[1] >> \o h \o Tail(b) :
        h \in SeqsUpTo(ToolLines, MaxTools), b \in { PromoteBody, ThrowBody } }

\* laststatus.machine.position.offset.z in tenths
OffsetValues == { 0, -1000 }

\* ------------------------------------------------------- the job menu

pass == << SPINDLE_START_DELAY, locals, input, replaces, inserts, lastHandled >>

InitMenu ==
    /\ input \in MenuPrograms
    /\ SPINDLE_START_DELAY = 30
    /\ doc = input
    /\ origin = [i \in 1..Len(input) |-> i]
    /\ pc = "idle"
    /\ lineCount = 0 /\ lineIdx = 0 /\ optimize = FALSE
    /\ curZ = None /\ curG = None /\ curF = None /\ feedZ = None
    /\ restoreF = FALSE /\ optimized = FALSE
    /\ printed = FALSE
    /\ runs = 0 /\ docAtCall = input /\ replaces = 0 /\ inserts = 0 /\ lastHandled = 0
    /\ MACHINE_MIN_Z \in { None, Some(MinZLimit) }
    /\ offset_z \in OffsetValues
    /\ MenuIdle

\* the user opens another program in the editor, once the program before it
\* has been through the job menu and no dialog is open
LoadProgram ==
    /\ pc # "idle" /\ dialog = NoDialog
    /\ \E p \in MenuPrograms :
         /\ doc' = p /\ input' = p /\ docAtCall' = p
         /\ origin' = [i \in 1..Len(p) |-> i]
    /\ pc' = "idle" /\ printed' = FALSE
    /\ runs' = 0 /\ replaces' = 0 /\ inserts' = 0 /\ lastHandled' = 0
    /\ event' = "LoadProgram" /\ called' = FALSE
    /\ toolInfo' = None
    /\ UNCHANGED << SPINDLE_START_DELAY, locals, MACHINE_MIN_Z, offset_z, g_LastToolName,
                    dialog >>

\* OnEnterJobMenuPart2(toolName, callback); shown is the dialog that stays
\* when none is opened
OnEnterJobMenuPart2(toolName, shown) ==
    IF SameTool(g_LastToolName, toolName)
    THEN /\ g_LastToolName' = Some(toolName)
         /\ called' = TRUE
         /\ dialog' = shown
    ELSE /\ dialog' = [title |-> "New tool requested", toolName |-> toolName]
         /\ called' = FALSE
         /\ UNCHANGED g_LastToolName

\* OnEnterJobMenu(callback): the pass over the document, the tool info of the
\* document it leaves, then the Z limit check.  A TypeError in the pass ends
\* the handler.  The locals of OptimizeGCode end with its call.
OnEnterJobMenu ==
    /\ pc \in { "idle", "done", "threw" }
    /\ runs < MaxRuns
    /\ LET r == Optimize(doc, SPINDLE_START_DELAY)
           info == GetToolInfo(r.doc)
       IN  /\ doc' = r.doc
           /\ origin' = [i \in 1..Len(r.doc) |-> IF r.org[i] = 0 THEN 0 ELSE origin[r.org[i]]]
           /\ pc' = r.st
           /\ printed' = (r.st = "done" /\ r.opt)
           /\ IF r.st = "threw"
              THEN /\ called' = FALSE
                   /\ UNCHANGED << g_LastToolName, dialog, toolInfo >>
              ELSE /\ toolInfo' = info
                   /\ IF info = None
                      THEN /\ called' = TRUE
                           /\ UNCHANGED << g_LastToolName, dialog >>
                      ELSE IF WithinLimit(info[1].minZ)
                      THEN OnEnterJobMenuPart2(info[1].toolName, dialog)
                      ELSE /\ dialog' = [title |-> "Low Z Warning", toolName |-> info[1].toolName]
                           /\ called' = FALSE
                           /\ UNCHANGED g_LastToolName
    /\ runs' = runs + 1 /\ docAtCall' = doc
    /\ event' = "OnEnterJobMenu"
    /\ UNCHANGED << SPINDLE_START_DELAY, locals, input, replaces, inserts, lastHandled,
                    MACHINE_MIN_Z, offset_z >>

\* lButton "!IGNORE" of the Low Z Warning dialog
LowZIgnore ==
    /\ dialog.title = "Low Z Warning"
    /\ OnEnterJobMenuPart2(dialog.toolName, NoDialog)
    /\ event' = "IGNORE"
    /\ UNCHANGED << doc, pc, printed, origin, runs, docAtCall, pass, MACHINE_MIN_Z, offset_z,
                    toolInfo >>

\* rButton "Back" of the Low Z Warning dialog: it has no handler
LowZBack ==
    /\ dialog.title = "Low Z Warning"
    /\ dialog' = NoDialog
    /\ called' = FALSE
    /\ event' = "Back"
    /\ UNCHANGED << doc, pc, printed, origin, runs, docAtCall, pass, MACHINE_MIN_Z, offset_z,
                    toolInfo, g_LastToolName >>

\* lButton "!Yes" of the New tool requested dialog
NewToolYes ==
    /\ dialog.title = "New tool requested"
    /\ g_LastToolName' = Some(dialog.toolName)
    /\ called' = TRUE
    /\ dialog' = NoDialog
    /\ event' = "Yes"
    /\ UNCHANGED << doc, pc, printed, origin, runs, docAtCall, pass, MACHINE_MIN_Z, offset_z,
                    toolInfo >>

\* rButton "No" of the New tool requested dialog: it has no handler
NewToolNo ==
    /\ dialog.title = "New tool requested"
    /\ dialog' = NoDialog
    /\ called' = FALSE
    /\ event' = "No"
    /\ UNCHANGED << doc, pc, printed, origin, runs, docAtCall, pass, MACHINE_MIN_Z, offset_z,
                    toolInfo, g_LastToolName >>

NextMenu ==
    \/ LoadProgram
    \/ OnEnterJobMenu
    \/ LowZIgnore
    \/ LowZBack
    \/ NewToolYes
    \/ NewToolNo

SpecMenu == InitMenu /\ [][NextMenu]_vars

\* ------------------------------------------------------------ properties

Ended == pc \in { "done", "threw" }

\* rows of doc that hold a line of the input / an inserted line
KeptRows == { i \in 1..Len(doc) : origin[i] > 0 }
InsertedRows == { i \in 1..Len(doc) : origin[i] = 0 }

\* the pass went past the first loop
Proceeded == runs = 1 /\ optimize

\* the input line was handled as a spindle start
HandledAsSpindle(line) == SPINDLE_START_DELAY > 0 /\ ContainsM3(line)

\* C1: idempotence.  A second (and any later) call of OptimizeGCode leaves
\* the document exactly as the call before it left it, and performs no
\* replace and no insert.
C1_Idempotent == runs >= 2 => (doc = docAtCall /\ replaces = 0 /\ inserts = 0)

\* C1 witness: the first call changed the document (marker, an inserted line)
\* and the second call has returned at the done-marked line.
C1_Witness ==
    /\ runs = 2 /\ pc = "done"
    /\ Len(doc) > Len(input)
    /\ lineIdx < Len(doc) /\ StartsWith(doc[lineIdx + 1], DonePrefix)

\* the four-line program of the scenario
C2_Program == << MarkerLine, PlungeFeedLine, CutLine, RetractLine >>

\* C2 as stated: after the pass the first line carries the OPTIMIZED: marker,
\* the third line is unchanged and the fourth line's G1 has become G0.
C2_AsStated ==
    (input = C2_Program /\ runs = 1 /\ pc = "done") =>
        /\ doc[1] = DoneLine
        /\ doc[3] = CutLine
        /\ doc[4] = << Word("G", 0), Word("Z", 0), Word("X", 200) >>

\* C2 amended: after the pass the first line carries the OPTIMIZED: marker and
\* the second, third and fourth lines are unchanged (no line moved Z down
\* from a known Z, so feedZ is never set and nothing is promoted).
C2_Scenario ==
    (input = C2_Program /\ runs = 1 /\ pc = "done") =>
        doc = << DoneLine, PlungeFeedLine, CutLine, RetractLine >>

\* C2 witness: the pass over the scenario's program has completed.
C2_Witness == input = C2_Program /\ runs = 1 /\ pc = "done" /\ lineIdx = 4

\* a row holding an input line that was promoted to rapid
PromotedRows == { i \in KeptRows : ~IsComment(input[origin[i]]) /\ doc[i] # input[origin[i]] }

\* rows holding an input line that is no comment and no spindle start and
\* was not promoted
PlainRows ==
    { j \in KeptRows \ PromotedRows :
        ~IsComment(input[origin[j]]) /\ ~HandledAsSpindle(input[origin[j]]) }

\* an inserted line of the form G1 F<n>
IsRestoreRow(j) ==
    /\ j \in InsertedRows
    /\ Len(doc[j]) = 2 /\ doc[j][1] = Word("G", 1) /\ doc[j][2].l = "F"

\* C3: in a completed pass, the first input line after a promoted line that
\* is no comment, no spindle start and not itself promoted has a feed-restore
\* line directly before it.
C3_AsStated ==
    (Proceeded /\ pc = "done") =>
        \A i \in PromotedRows :
            \A j \in PlainRows :
                (i < j /\ \A m \in PlainRows : ~(i < m /\ m < j)) => IsRestoreRow(j - 1)

\* C4: the pass never ends in a raised failure.
C4_AsStated == pc # "threw"

\* an inserted dwell line "G4 P<delay>"
IsDwellRow(j) ==
    /\ j \in InsertedRows
    /\ doc[j] = << Word("G", 4), Word("P", SPINDLE_START_DELAY) >>

\* rows holding a non-comment input line that contains M3
SpindleRows ==
    { i \in KeptRows :
        /\ ~IsComment(input[origin[i]])
        /\ \E k \in 1..Len(input[origin[i]]) : input[origin[i]][k] = Word("M", 3) }

\* each spindle-start line is followed by exactly one dwell line, and there
\* is no other dwell line; none at all with delay 0
DwellsPlaced ==
    IF SPINDLE_START_DELAY > 0
    THEN /\ \A i \in SpindleRows : IsDwellRow(i + 1) /\ ~IsDwellRow(i + 2)
         /\ \A j \in 1..Len(doc) : IsDwellRow(j) => (j - 1) \in SpindleRows
    ELSE \A j \in 1..Len(doc) : ~(j \in InsertedRows /\ doc[j][1] = Word("G", 4))

\* C5: when a pass that went past the first loop has ended, every non-comment
\* input line containing M3 is followed by exactly one dwell line, no dwell
\* line is anywhere else, and with delay 0 there is none.
C5_AsStated == (Proceeded /\ Ended) => DwellsPlaced

\* C6: line-count conservation.  At the start of every iteration of the main
\* loop lineCount is the number of lines of the document, and when the pass
\* has ended the document has as many lines as it had at the call plus one
\* for each insertFullLines call.
C6_LineCount ==
    /\ pc = "loop" => lineCount = Len(doc)
    /\ Ended => Len(doc) = Len(docAtCall) + inserts

\* C6 witness: a pass that inserted a dwell line and a feed-restore line has ended.
C6_Witness ==
    /\ pc = "done" /\ runs = 1 /\ inserts >= 2
    /\ \E i \in InsertedRows : doc[i][1] = Word("G", 4)
    /\ \E i \in InsertedRows : doc[i][1] = Word("G", 1)

\* b is a with only the OPTIMIZED: tag added after the opening parenthesis
TagAdded(a, b) ==
    /\ Len(b) = Len(a) + 1
    /\ b[1] = a[1] /\ b[2] = Text("OPTIMIZED: ")
    /\ \A k \in 2..Len(a) : b[k + 1] = a[k]

\* b is a with only its leading G word replaced by G0
LeadingGReplaced(a, b) ==
    /\ a # << >> /\ a[1].l = "G" /\ Len(b) = Len(a)
    /\ b[1] = Word("G", 0)
    /\ \A k \in 2..Len(a) : b[k] = a[k]

\* b is a with only a G0 word put in front
G0Prefixed(a, b) ==
    /\ Len(b) = Len(a) + 1
    /\ b[1] = Word("G", 0)
    /\ \A k \in 1..Len(a) : b[k + 1] = a[k]

\* the first block-start line of the input
IsFirstBlockStart(k) ==
    /\ StartsWith(input[k], BlockStartPrefix)
    /\ \A j \in 1..(k - 1) : ~StartsWith(input[j], BlockStartPrefix)

\* C7: edits preserve order and content.  Without the inserted lines the
\* document has the length of the input and holds its lines in their order,
\* each one unchanged, or the first block-start line with only the OPTIMIZED:
\* tag added, or with only its leading G word replaced by G0 or a G0 word put
\* in front.
C7_Frame ==
    /\ Cardinality(KeptRows) = Len(input)
    /\ \A i, j \in KeptRows : i < j => origin[i] < origin[j]
    /\ \A i \in KeptRows :
          LET a == input[origin[i]]
              b == doc[i]
          IN  \/ b = a
              \/ IsFirstBlockStart(origin[i]) /\ TagAdded(a, b)
              \/ LeadingGReplaced(a, b)
              \/ G0Prefixed(a, b)

\* C7 witness: a pass has ended after putting G0 in front of a line without a
\* G word, replacing the G word of another and inserting a line.
C7_Witness ==
    /\ pc = "done" /\ InsertedRows # {}
    /\ \E i \in KeptRows : G0Prefixed(input[origin[i]], doc[i])
    /\ \E i \in KeptRows : LeadingGReplaced(input[origin[i]], doc[i]) /\ doc[i] # input[origin[i]]

\* the value of the last non-comment line among input lines 1..n for which
\* Match gives a value, with or without the lines handled as spindle starts
LastSpecified(Match(_), n, withSpindle) ==
    LET S == { k \in 1..n :
                 /\ ~IsComment(input[k])
                 /\ withSpindle \/ ~HandledAsSpindle(input[k])
                 /\ Match(input[k]) # None }
    IN  IF S = {} THEN None
        ELSE Match(input[CHOOSE k \in S : \A m \in S : m <= k])

StickyAgrees(withSpindle) ==
    /\ curZ = LastSpecified(MatchZ, lastHandled, withSpindle)
    /\ curF = LastSpecified(MatchF, lastHandled, withSpindle)
    /\ curG = LastSpecified(MatchG, lastHandled, withSpindle)

\* C8 as stated: after the main loop has handled input line N, curZ, curF and
\* curG are the values last specified on a non-comment input line at or
\* before N (absent if none), spindle-start lines included.
C8_AsStated == (runs = 1 /\ pc \in { "loop", "done", "threw" }) => StickyAgrees(TRUE)

\* C8 amended: after the main loop has handled input line N, curZ, curF and
\* curG are the values last specified on a non-comment input line at or
\* before N that was not handled as a spindle start (absent if none); the
\* words of a line containing M3 are not read while the delay is above 0.
C8_Sticky == (runs = 1 /\ pc \in { "loop", "done", "threw" }) => StickyAgrees(FALSE)

\* C8 witness: the loop has handled a spindle-start line carrying a Z word
\* and curZ still has the Z of an earlier line.
C8_Witness ==
    /\ runs = 1 /\ pc = "loop" /\ SPINDLE_START_DELAY > 0
    /\ lastHandled > 1 /\ input[lastHandled] = SpindleMoveLine
    /\ curZ = Some(-50)

\* scanning d from the top, the first line that is a block-start line or a
\* done-marked line is an unmarked block-start line
FirstMarkIsBlockStart(d) ==
    \E k \in 1..Len(d) :
        /\ StartsWith(d[k], BlockStartPrefix)
        /\ \A j \in 1..(k - 1) :
              ~StartsWith(d[j], BlockStartPrefix) /\ ~StartsWith(d[j], DonePrefix)

\* C9: the call changes the document only if the first block-start or
\* done-marked line from the top is an unmarked block-start line; otherwise
\* it makes no replace and no insert and the document stays as it was.
C9_NoOp ==
    (runs >= 1 /\ ~FirstMarkIsBlockStart(docAtCall)) =>
        (doc = docAtCall /\ replaces = 0 /\ inserts = 0)

\* C9 witness: the first call has returned on a document whose done-marked
\* line comes before a block-start line and a spindle start.
C9_Witness ==
    /\ runs = 1 /\ pc = "done"
    /\ \E i, j, k \in 1..Len(input) :
          /\ i < j /\ StartsWith(input[i], DonePrefix)
          /\ StartsWith(input[j], BlockStartPrefix)
          /\ input[k] = SpindleLine

\* the stepwise pass and the pass computed in one piece agree
PassAgrees ==
    (runs = 1 /\ Ended) =>
        LET r == Optimize(input, SPINDLE_START_DELAY)
        IN  r.doc = doc /\ r.org = origin /\ r.st = pc

\* Z values tried in place of the Z words of an earlier line
ZValues == { -100, -50, 0, 50 }

\* line with every Z word set to v
WithZ(line, v) == [i \in 1..Len(line) |-> IF line[i].l = "Z" THEN Word("Z", v) ELSE line[i]]

\* the programs that differ from p only in the Z value of one line before row k
ZVariants(p, k) ==
    { [p EXCEPT ![j] = WithZ(p[j], v)] : j \in 1..(k - 1), v \in ZValues }

\* the rows of result r from input line k onward
FromLine(r, k) ==
    LET row == CHOOSE i \in 1..Len(r.doc) : r.org[i] = k
    IN  SubSeq(r.doc, row, Len(r.doc))

\* C10: operation isolation.  For a program and any program that differs from
\* it only in the Z value of a line before some block-start line, when both
\* passes complete the lines from that block-start line onward come out the
\* same (promoted, left alone and given feed-restore lines identically).
C10_AsStated ==
    (runs = 1 /\ pc = "done" /\ optimize) =>
        \A k \in 1..Len(input) :
            StartsWith(input[k], BlockStartPrefix) =>
                \A q \in ZVariants(input, k) :
                    LET r == Optimize(q, SPINDLE_START_DELAY)
                    IN  r.st = "done" =>
                            FromLine(r, k) = SubSeq(doc, CHOOSE i \in 1..Len(doc) : origin[i] = k, Len(doc))


\* ------------------------------------------------ termination (C11)

\* the variant of the main loop: two for every row still to visit, one more
\* while a feed restore is pending
Variant == 2 * (lineCount - lineIdx) + (IF restoreF THEN 1 ELSE 0)

\* C11: the rewrite pass terminates.  While the pass is in one of its loops a
\* next step exists; every iteration of the main loop that stays in the loop
\* strictly lowers the variant, which never goes below zero and starts at
\* twice the number of input lines, so the loop makes at most two iterations
\* per input line although lineCount grows with every insert; and when the
\* pass returns from the main loop the index has reached lineCount.
C11_Terminates ==
    /\ [](pc \in { "scan", "loop" } => ENABLED Next)
    /\ [][(pc = "loop" /\ pc' = "loop") => (Variant' < Variant /\ Variant' >= 0)]_vars
    /\ []((pc = "done" /\ optimize) => lineIdx = lineCount)

\* C11 witness: the main loop has run to lineCount over a document that grew
\* by a dwell line and by a feed-restore line.
C11_Witness ==
    /\ runs = 1 /\ pc = "done" /\ optimize
    /\ lineIdx = lineCount /\ lineCount > Len(input)
    /\ \E i, j \in InsertedRows : IsRestoreRow(i) /\ IsDwellRow(j)

\* ------------------------------------------- promotion and Z (C14..C17)

\* the modal Z in effect after input line k, as the main loop reads it
ModalZ(k) == LastSpecified(MatchZ, k, FALSE)

\* C14 as stated: for every input line rewritten to G0, the modal Z after the
\* line is at least the modal Z after the input line before it.
C14_AsStated ==
    \A i \in PromotedRows : Ge(ModalZ(origin[i]), ModalZ(origin[i] - 1))

\* C15 as stated: the row the main loop is about to evaluate holds the input
\* line that follows the one it handled last: no input line is skipped or
\* evaluated twice and no inserted line is evaluated.
C15_AsStated ==
    (pc = "loop" /\ lineIdx < lineCount) => origin[lineIdx + 1] = lastHandled + 1

\* the main loop has just rewritten the input line it handled last
JustPromoted ==
    /\ pc = "loop" /\ lastHandled > 0
    /\ \E i \in PromotedRows : origin[i] = lastHandled

\* C16: cutting moves are never promoted.  When the main loop rewrites an
\* input line to G0, feedZ is set and the modal Z after the line is not below
\* it; a line handled while feedZ is absent, or whose modal Z is below feedZ,
\* is left as it is.
C16_CutsKept ==
    JustPromoted => (feedZ # None /\ Ge(ModalZ(lastHandled), feedZ))

\* C16 witness: after one line was promoted, a line whose modal Z is below
\* feedZ has been handled as a motion line and is unchanged.
C16_Witness ==
    /\ pc = "loop" /\ lastHandled > 0 /\ lineIdx > 0
    /\ PromotedRows # {}
    /\ feedZ # None /\ Lt(ModalZ(lastHandled), feedZ)
    /\ origin[lineIdx] = lastHandled
    /\ doc[lineIdx] = input[lastHandled]
    /\ ~IsComment(input[lastHandled])

\* C17 as stated: right after the main loop has handled a line that was a
\* block-start line in the input, feedZ is absent.
C17_AsStated ==
    (pc = "loop" /\ lastHandled > 0 /\ IsBlockStart(input[lastHandled])) => feedZ = None

\* ------------------------------------------------ tool info (C12, C13)

\* OnEnterJobMenu ran last and got as far as the tool info
InfoRead == event = "OnEnterJobMenu" /\ pc = "done"

HasToolLine(d) == \E k \in 1..Len(d) : StartsWithParenT(d[k])

\* the lowest-index line of d that starts with "(T"
FirstToolLine(d) ==
    d[CHOOSE k \in 1..Len(d) :
        StartsWithParenT(d[k]) /\ \A m \in 1..(k - 1) : ~StartsWithParenT(d[m])]

\* the line reads (T<index> <name> ZMIN=<number>)
HasNameAndZmin(line) ==
    /\ Len(line) = 5
    /\ line[2].l = "T" /\ line[4].l = "ZMIN=" /\ line[5] = Text(")")

\* C12 as stated: for a tool-comment line (T<index> <name> ZMIN=<number>) the
\* tool name returned is <name> alone and minZ is <number>; minZ is absent
\* when the line has no ZMIN= token.
C12_AsStated ==
    (InfoRead /\ HasToolLine(doc)) =>
        LET line == FirstToolLine(doc)
        IN  /\ HasNameAndZmin(line) =>
                /\ toolInfo[1].toolName = << line[3] >>
                /\ toolInfo[1].minZ = Some(line[4].v)
            /\ (\A i \in 1..Len(line) : line[i].l # "ZMIN=") => toolInfo[1].minZ = None

\* C13: GetToolInfo reads the first tool-comment line only.  After the
\* handler has read the tool info, the document is as the pass left it, the
\* info is absent exactly when no line starts with "(T", and otherwise it is
\* the info of the lowest-index such line, whatever lines follow it.
C13_FirstToolLine ==
    InfoRead =>
        /\ doc = Optimize(docAtCall, SPINDLE_START_DELAY).doc
        /\ (toolInfo = None) <=> ~HasToolLine(doc)
        /\ HasToolLine(doc) => toolInfo = Some(ToolInfoOf(FirstToolLine(doc)))

\* C13 witness: the tool info was read from a document with two tool-comment
\* lines that give different infos.
C13_Witness ==
    /\ InfoRead /\ toolInfo # None
    /\ \E i, j \in 1..Len(doc) :
          /\ i < j /\ StartsWithParenT(doc[i]) /\ StartsWithParenT(doc[j])
          /\ ToolInfoOf(doc[i]) # ToolInfoOf(doc[j])

\* ------------------------------------------------ the gates (C18, C19)

\* C18: tool-change gating.  A handler other than the Yes button invokes the
\* callback only when there is no tool info, no tool is recorded, or the tool
\* name it hands on equals g_LastToolName; g_LastToolName changes only in a
\* step that invokes the callback; the No and Back buttons neither invoke the
\* callback nor change g_LastToolName.
C18_Gating ==
    /\ [][(called' /\ event' = "OnEnterJobMenu") =>
            \/ toolInfo' = None
            \/ g_LastToolName = None
            \/ g_LastToolName = Some(toolInfo'[1].toolName)]_vars
    /\ [][(called' /\ event' = "IGNORE") =>
            \/ g_LastToolName = None
            \/ g_LastToolName = Some(dialog.toolName)]_vars
    /\ [][g_LastToolName' # g_LastToolName => called']_vars
    /\ [][event' \in { "No", "Back" } => (~called' /\ g_LastToolName' = g_LastToolName)]_vars

\* C18 witness: a job with another tool than the recorded one was confirmed
\* with Yes, and its tool is now the recorded one.
C18_Witness ==
    /\ event = "Yes" /\ called
    /\ toolInfo # None
    /\ g_LastToolName = Some(toolInfo[1].toolName)

\* C19 as stated: when OnEnterJobMenu has opened the Low Z Warning dialog, the
\* limit is enabled, the first tool-comment line has a ZMIN value, and that
\* value plus the Z offset is below the limit.
C19_AsStated ==
    (InfoRead /\ ~called /\ dialog.title = "Low Z Warning") =>
        /\ MACHINE_MIN_Z # None
        /\ HasToolLine(doc)
        /\ MatchZMIN(FirstToolLine(doc)) # None
        /\ MatchZMIN(FirstToolLine(doc))[1] + offset_z < MACHINE_MIN_Z[1]

====
